---- MODULE Spec2Model ----
(***************************************************************************)
(* Session lifecycle of the Neovim bridge: NeovimRuntime::launch, the      *)
(* handshake (launch / check_neovim_version), the embedded supervisor      *)
(* (run), the server supervisor (run_with_reconnect / run_server) and the  *)
(* RunningTracker quit flag, from src/src/bridge/mod.rs and                *)
(* src/src/running_tracker.rs.                                             *)
(***************************************************************************)
EXTENDS Integers, Sequences, FiniteSets, TLC

(* ------------------------------ bounds --------------------------------- *)
\* Launch attempts of one supervisor; the last one is not allowed to fail.
MaxAttempts == 7
\* Liveness pings handled by one run_server.
MaxPings == 2
\* Version triples a backend may report: 0..MaxMajor, {0} \cup 9..MaxMinor,
\* 0..MaxPatch.
MaxMajor == 1
MaxMinor == 10
MaxPatch == 0
\* Clones of the RunningTracker, each used by one thread.
NumClones == 2
\* Exit codes passed to quit_with_code: 0..MaxCode.
MaxCode == 2
\* quit_with_code and request_quit calls made in all.
MaxCalls == 3

(* ------------------------- program constants --------------------------- *)
\* let mut wait = Duration::from_secs(1)
BaseWaitSecs == 1
\* if wait < Duration::from_secs(30)
WaitCapSecs == 30
\* for attempt in 0..5
VersionAttempts == 5
\* info.version.has_version(0, 10, 0)
RequiredMajor == 0
RequiredMinor == 10
RequiredPatch == 0

VARIABLES
    mode,          \* settings.server.is_some(): "server", else "embedded"
    hostResult,    \* what NeovimRuntime::launch returned: "pending", "ok", "err"
    pc,            \* position of the task running launch / the supervisor
    attempts,      \* launch() calls started so far
    wait,          \* run_with_reconnect's local `wait`, in seconds
    events,        \* UserEvents sent through the EventLoopProxy, in order
    quitting,      \* RunningTracker.quitting
    quitAt,        \* history: where the loop was when the quit was requested
    log,           \* calls issued by the current launch(), with their results
    attempt,       \* check_neovim_version's loop variable
    launchResult,  \* result of the current launch(): "none", "ok" or an error
    accepted,      \* version of the ApiInformation check_neovim_version returned
    firstResult,   \* history: outcome of the first launch(): "none", "ok", "err"
    incompatibleSeen, \* history: some launch() ended with IncompatibleVersion
    io_handle,     \* session.io_handle: "none", "running", "aborting", "finished"
    process,       \* session.neovim_process: "none", "running", "exited"
    stderr_task,   \* session.stderr_task: "none", "running", "finished"
    current_nvim,  \* the process-wide current connection is set
    pings,         \* ping_interval ticks handled by run_server
    pingTimedOut,  \* history: some ping ran into its 2 s timeout
    pingIo,        \* history: io_handle as it was when the latest ping was issued
    exit_code,     \* RunningTracker.exit_code
    tpc,           \* per clone: "idle", or "request_quit" inside quit_with_code
    calls,         \* quit_with_code and request_quit calls started
    stores,        \* history: the codes stored into exit_code, in order
    plainQuit,     \* history: request_quit was called directly
    lastRead,      \* what the latest exit_code() returned
    readAt,        \* history: Len(stores) at the latest exit_code()
    quitSeen       \* what the latest quit_requested() returned

vars == <<mode, hostResult, pc, attempts, wait, events, quitting, quitAt, log,
          attempt, launchResult, accepted, firstResult, incompatibleSeen,
          io_handle, process, stderr_task, current_nvim, pings, pingTimedOut,
          pingIo, exit_code, tpc, calls, stores, plainQuit, lastRead, readAt,
          quitSeen>>

launchVars == <<log, attempt, launchResult, accepted, firstResult, incompatibleSeen>>
sessionVars == <<io_handle, process, stderr_task>>
trackerVars == <<exit_code, tpc, calls, stores, plainQuit, lastRead, readAt, quitSeen>>
quitVars == <<quitting, quitAt, trackerVars>>
pingVars == <<pings, pingTimedOut, pingIo>>

(* ------------------------------ values --------------------------------- *)
NoVersion == <<>>

Versions == (0..MaxMajor) \X ({0} \cup ((RequiredMinor - 1)..MaxMinor)) \X (0..MaxPatch)

\* What get_api_information may answer: Ok(info) with a version, or Err.
Replies == [ok : {TRUE}, version : Versions]
             \cup {[ok |-> FALSE, version |-> <<0, 0, 0>>]}

Call(c, r) == [call |-> c, result |-> r]

RedrawRequested == [type |-> "RedrawRequested", wait |-> 0]
ReconnectStop == [type |-> "ReconnectStop", wait |-> 0]
NeovimExited == [type |-> "NeovimExited", wait |-> 0]

\* The event of a mutated run_with_reconnect that doubles before it reports.
ReconnectStart_AfterDoubling(w) ==
    [type |-> "ReconnectStart", wait |-> IF w < WaitCapSecs THEN w * 2 ELSE w]

\* UserEvent::ReconnectStart { address, wait: wait.as_secs() }; the address is
\* the same in every event and is left out.
ReconnectStart(w) == [type |-> "ReconnectStart", wait |-> w]

(* --------------------------- pure functions ---------------------------- *)
\* Version::has_version: the version is at least major.minor.patch, compared
\* by major, then minor, then patch.
has_version(v, major, minor, patch) ==
    \/ v[1] > major
    \/ v[1] = major /\ v[2] > minor
    \/ v[1] = major /\ v[2] = minor /\ v[3] >= patch

\* A mutated match arm that takes any Ok(info).
AcceptReply_AnyOk(reply) == reply.ok

\* Ok(info) if info.version.has_version(0, 10, 0) => return Ok(info)
AcceptReply(reply) ==
    reply.ok /\ has_version(reply.version, RequiredMajor, RequiredMinor, RequiredPatch)

\* A mutated loop range, 0..=5.
VersionLoopContinues_OneMore(a) == a < VersionAttempts + 1

\* for attempt in 0..5: whether the loop body runs for this value.
VersionLoopContinues(a) == a < VersionAttempts

\* if wait < Duration::from_secs(30) { wait *= 2; }
NextWait(w) == IF w < WaitCapSecs THEN w * 2 ELSE w

\* A mutated abort that does nothing.
abort_Nothing(h) == h

\* JoinHandle::abort: a task that is still running is cancelled; it completes
\* (with a cancelled JoinError) at its next yield point.
abort(h) == IF h = "running" THEN "aborting" ELSE h

\* RunningTracker::quit_requested
quit_requested == quitting

(* ------------------------------ helpers -------------------------------- *)
\* The bound on the model: only attempts before the last one may fail.
CanFail == attempts < MaxAttempts

\* launch() is entered: its locals are fresh.
StartLaunch ==
    /\ pc' = "session_new"
    /\ attempts' = attempts + 1
    /\ log' = <<>>
    /\ attempt' = 0
    /\ launchResult' = "none"
    /\ accepted' = NoVersion
    /\ UNCHANGED <<firstResult, incompatibleSeen>>

\* launch() returns res to its caller.
ReturnFromLaunch(res) ==
    /\ pc' = "launched"
    /\ launchResult' = res
    /\ firstResult' = IF firstResult # "none" THEN firstResult
                      ELSE IF res = "ok" THEN "ok" ELSE "err"
    /\ incompatibleSeen' = (incompatibleSeen \/ res = "IncompatibleVersion")

\* launch()'s locals go out of scope.
ForgetLaunch ==
    /\ log' = <<>>
    /\ attempt' = 0
    /\ launchResult' = "none"
    /\ accepted' = NoVersion
    /\ UNCHANGED <<firstResult, incompatibleSeen>>

(* ------------------------------- Init ---------------------------------- *)
Init ==
    /\ mode \in {"embedded", "server"}
    /\ hostResult = "pending"
    /\ pc = "start"
    /\ attempts = 0
    /\ wait = 0
    /\ events = <<>>
    /\ quitting = FALSE
    /\ quitAt = "none"
    /\ log = <<>>
    /\ attempt = 0
    /\ launchResult = "none"
    /\ accepted = NoVersion
    /\ firstResult = "none"
    /\ incompatibleSeen = FALSE
    /\ io_handle = "none"
    /\ process = "none"
    /\ stderr_task = "none"
    /\ current_nvim = FALSE
    /\ pings = 0
    /\ pingTimedOut = FALSE
    /\ pingIo = "none"
    /\ exit_code = 0
    /\ tpc = [t \in 1..NumClones |-> "idle"]
    /\ calls = 0
    /\ stores = <<>>
    /\ plainQuit = FALSE
    /\ lastRead = 0
    /\ readAt = 0
    /\ quitSeen = FALSE

(* ------------------------ NeovimRuntime::launch ------------------------ *)
\* NeovimRuntime::launch is called. With a server address it spawns
\* run_with_reconnect and returns Ok(()); otherwise it blocks on launch().
RuntimeLaunch ==
    /\ pc = "start"
    /\ IF mode = "server"
       THEN /\ pc' = "loop"
            /\ wait' = BaseWaitSecs
            /\ hostResult' = "ok"
            /\ UNCHANGED <<attempts, launchVars>>
       ELSE /\ StartLaunch
            /\ UNCHANGED <<wait, hostResult>>
    /\ UNCHANGED <<mode, events, quitVars, sessionVars, current_nvim, pingVars>>

\* A mutated embedded arm that drops the `?` on block_on(launch(..)).
EmbeddedLaunched_SwallowError ==
    /\ pc = "launched"
    /\ mode = "embedded"
    /\ hostResult' = "ok"
    /\ IF launchResult = "ok"
       THEN /\ current_nvim' = TRUE
            /\ pc' = "run_select"
            /\ UNCHANGED sessionVars
       ELSE /\ pc' = "done"
            /\ io_handle' = "none" /\ process' = "none" /\ stderr_task' = "none"
            /\ UNCHANGED current_nvim
    /\ ForgetLaunch
    /\ UNCHANGED <<mode, attempts, wait, events, quitVars, pingVars>>

\* block_on(launch(..))? returns in the embedded arm: an error goes to the
\* caller; a session is handed to a spawned task that starts the UI command
\* handler and runs `run`, and Ok(()) is returned.
EmbeddedLaunched ==
    /\ pc = "launched"
    /\ mode = "embedded"
    /\ IF launchResult = "ok"
       THEN /\ hostResult' = "ok"
            /\ current_nvim' = TRUE
            /\ pc' = "run_select"
            /\ UNCHANGED sessionVars
       ELSE /\ hostResult' = "err"
            /\ pc' = "done"
            /\ io_handle' = "none" /\ process' = "none" /\ stderr_task' = "none"
            /\ UNCHANGED current_nvim
    /\ ForgetLaunch
    /\ UNCHANGED <<mode, attempts, wait, events, quitVars, pingVars>>

(* ------------------------------- launch -------------------------------- *)
\* NeovimSession::new(..).await.context(..)?  An embedded session owns the
\* child process and, when its stderr is piped, a relay task; a server session
\* owns neither.
SessionNew ==
    /\ pc = "session_new"
    /\ \E ok \in BOOLEAN :
        /\ ok \/ CanFail
        /\ log' = Append(log, Call("session_new", IF ok THEN "ok" ELSE "err"))
        /\ IF ok
           THEN /\ pc' = "check_version"
                /\ io_handle' = "running"
                /\ process' = IF mode = "embedded" THEN "running" ELSE "none"
                /\ stderr_task' \in IF mode = "embedded" THEN {"none", "running"}
                                                          ELSE {"none"}
                /\ UNCHANGED <<attempt, launchResult, accepted, firstResult, incompatibleSeen>>
           ELSE /\ ReturnFromLaunch("ConnectError")
                /\ UNCHANGED <<attempt, accepted, sessionVars>>
    /\ UNCHANGED <<mode, hostResult, attempts, wait, events, quitVars,
                   current_nvim, pingVars>>

\* One pass of check_neovim_version's loop up to its match: the request and
\* the arm taken.
GetApiInformation ==
    /\ pc = "check_version"
    /\ \E reply \in Replies :
        IF AcceptReply(reply)
        THEN /\ log' = Append(log, Call("get_api_information", "ok"))
             /\ accepted' = reply.version
             /\ pc' = "setup"
        ELSE /\ CanFail
             /\ log' = Append(log, Call("get_api_information",
                                        IF reply.ok THEN "old" ELSE "err"))
             /\ pc' = "version_sleep"
             /\ UNCHANGED accepted
    /\ UNCHANGED <<mode, hostResult, attempts, wait, events, quitVars, attempt,
                   launchResult, firstResult, incompatibleSeen, sessionVars, current_nvim, pingVars>>

\* A mutated loop exit that falls through to the setup instead of returning Err.
VersionSleep_FallThrough ==
    /\ pc = "version_sleep"
    /\ log' = Append(log, Call("sleep", "ok"))
    /\ attempt' = attempt + 1
    /\ pc' = IF VersionLoopContinues(attempt + 1) THEN "check_version" ELSE "setup"
    /\ UNCHANGED <<mode, hostResult, attempts, wait, events, quitVars, launchResult,
                   accepted, firstResult, incompatibleSeen, sessionVars, current_nvim, pingVars>>

\* sleep(500ms) at the end of the loop body, then the next pass or, after the
\* last one, Err(anyhow!("Neovide requires nvim version ..")).
VersionSleep ==
    /\ pc = "version_sleep"
    /\ log' = Append(log, Call("sleep", "ok"))
    /\ attempt' = attempt + 1
    /\ IF VersionLoopContinues(attempt + 1)
       THEN /\ pc' = "check_version"
            /\ UNCHANGED <<launchResult, firstResult, incompatibleSeen>>
       ELSE ReturnFromLaunch("IncompatibleVersion")
    /\ UNCHANGED <<mode, hostResult, attempts, wait, events, quitVars, accepted,
                   sessionVars, current_nvim, pingVars>>

\* One handshake call after the version check: on success go on to `next`,
\* on failure launch() returns `err`.
HandshakeStep(at, call, next, err) ==
    /\ pc = at
    /\ \E ok \in BOOLEAN :
        /\ ok \/ CanFail
        /\ log' = Append(log, Call(call, IF ok THEN "ok" ELSE "err"))
        /\ IF ok
           THEN IF next = "launched"
                THEN ReturnFromLaunch("ok")
                ELSE pc' = next /\ UNCHANGED <<launchResult, firstResult, incompatibleSeen>>
           ELSE ReturnFromLaunch(err)
    /\ UNCHANGED <<mode, hostResult, attempts, wait, events, quitVars, attempt,
                   accepted, sessionVars, current_nvim, pingVars>>

\* setup_neovide_specific_state(..).await?
SetupNeovideSpecificState ==
    HandshakeStep("setup", "setup_neovide_specific_state", "settings", "SetupError")

\* settings.read_initial_values(&session.neovim).await?
ReadInitialValues ==
    HandshakeStep("settings", "read_initial_values", "ui_attach", "SettingsSyncError")

\* session.neovim.ui_attach(..).await.context(..); res.map(|()| session)
UiAttach ==
    HandshakeStep("ui_attach", "ui_attach", "launched", "AttachError")

(* ------------------------- run_with_reconnect -------------------------- *)
\* A mutated loop head without the quit check.
LoopCheck_NoQuitCheck ==
    /\ pc = "loop"
    /\ StartLaunch
    /\ UNCHANGED <<mode, hostResult, wait, events, quitVars, sessionVars,
                   current_nvim, pingVars>>

\* The head of the loop: break when quit_requested(), else call launch().
LoopCheck ==
    /\ pc = "loop"
    /\ IF quit_requested
       THEN /\ pc' = "done"
            /\ UNCHANGED <<attempts, launchVars>>
       ELSE StartLaunch
    /\ UNCHANGED <<mode, hostResult, wait, events, quitVars, sessionVars,
                   current_nvim, pingVars>>

\* A mutated Ok arm that resets the backoff on a successful connection.
ReconnectConnected_ResetWait ==
    /\ pc = "launched"
    /\ mode = "server"
    /\ launchResult = "ok"
    /\ current_nvim' = TRUE
    /\ events' = events \o <<ReconnectStop, RedrawRequested>>
    /\ wait' = BaseWaitSecs
    /\ pc' = "monitor"
    /\ ForgetLaunch
    /\ UNCHANGED <<mode, hostResult, attempts, quitVars, sessionVars, pingVars>>

\* The Ok(session) arm: start_ui_command_handler, ReconnectStop,
\* RedrawRequested, then run_server(session, ..).
ReconnectConnected ==
    /\ pc = "launched"
    /\ mode = "server"
    /\ launchResult = "ok"
    /\ current_nvim' = TRUE
    /\ events' = events \o <<ReconnectStop, RedrawRequested>>
    /\ pc' = "monitor"
    /\ ForgetLaunch
    /\ UNCHANGED <<mode, hostResult, attempts, wait, quitVars, sessionVars, pingVars>>

\* A mutated Err arm that gives up after reporting the failure.
ReconnectFailed_GiveUp ==
    /\ pc = "launched"
    /\ mode = "server"
    /\ launchResult \notin {"none", "ok"}
    /\ events' = events \o <<ReconnectStart(wait), RedrawRequested>>
    /\ pc' = "done"
    /\ io_handle' = "none" /\ process' = "none" /\ stderr_task' = "none"
    /\ ForgetLaunch
    /\ UNCHANGED <<mode, hostResult, attempts, wait, quitVars, current_nvim, pingVars>>

\* A mutated Err arm that returns the error from the supervisor.
ReconnectFailed_Propagate ==
    /\ pc = "launched"
    /\ mode = "server"
    /\ launchResult \notin {"none", "ok"}
    /\ hostResult' = "err"
    /\ pc' = "done"
    /\ io_handle' = "none" /\ process' = "none" /\ stderr_task' = "none"
    /\ ForgetLaunch
    /\ UNCHANGED <<mode, attempts, wait, events, quitVars, current_nvim, pingVars>>

\* A mutated Err arm that treats an incompatible version as final.
ReconnectFailed_FatalOnVersion ==
    /\ pc = "launched"
    /\ mode = "server"
    /\ launchResult \notin {"none", "ok"}
    /\ events' = events \o <<ReconnectStart(wait), RedrawRequested>>
    /\ pc' = IF launchResult = "IncompatibleVersion" THEN "done" ELSE "backoff_sleep"
    /\ io_handle' = "none" /\ process' = "none" /\ stderr_task' = "none"
    /\ ForgetLaunch
    /\ UNCHANGED <<mode, hostResult, attempts, wait, quitVars, current_nvim, pingVars>>

\* The Err(err) arm and what follows the match: log the error, send
\* ReconnectStart { address, wait } and RedrawRequested, go to sleep(wait).
ReconnectFailed ==
    /\ pc = "launched"
    /\ mode = "server"
    /\ launchResult \notin {"none", "ok"}
    /\ events' = events \o <<ReconnectStart(wait), RedrawRequested>>
    /\ pc' = "backoff_sleep"
    /\ io_handle' = "none" /\ process' = "none" /\ stderr_task' = "none"
    /\ ForgetLaunch
    /\ UNCHANGED <<mode, hostResult, attempts, wait, quitVars, current_nvim, pingVars>>

\* sleep(wait) is over: double the wait below the cap, next iteration.
BackoffSleep ==
    /\ pc = "backoff_sleep"
    /\ wait' = NextWait(wait)
    /\ pc' = "loop"
    /\ UNCHANGED <<mode, hostResult, attempts, events, quitVars, launchVars,
                   sessionVars, current_nvim, pingVars>>

(* ----------------------------- run_server ------------------------------ *)
\* select! branch `&mut session.io_handle`: the read loop has completed.
ServerIoClosed ==
    /\ pc = "monitor"
    /\ io_handle = "finished"
    /\ pc' = "drain"
    /\ UNCHANGED <<mode, hostResult, attempts, wait, events, quitVars, launchVars,
                   sessionVars, current_nvim, pingVars>>

\* A mutated tick branch that breaks out of the loop right after the abort.
PingTick_BreakOnTimeout ==
    /\ pc = "monitor"
    /\ pings < MaxPings
    /\ pings' = pings + 1
    /\ pingIo' = io_handle
    /\ \E timedOut \in BOOLEAN :
        IF timedOut
        THEN /\ io_handle' = abort(io_handle)
             /\ pingTimedOut' = TRUE
             /\ pc' = "drain"
        ELSE UNCHANGED <<io_handle, pingTimedOut, pc>>
    /\ UNCHANGED <<mode, hostResult, attempts, wait, events, quitVars,
                   launchVars, process, stderr_task, current_nvim>>

\* A mutated tick branch that unwraps the ping's result: a call on a closed
\* session panics the supervising task.
PingTick_UnwrapOnClosed ==
    /\ pc = "monitor"
    /\ pings < MaxPings
    /\ pings' = pings + 1
    /\ pingIo' = io_handle
    /\ IF io_handle = "finished"
       THEN pc' = "done" /\ UNCHANGED <<io_handle, pingTimedOut>>
       ELSE /\ pc' = pc
            /\ \E timedOut \in BOOLEAN :
                IF timedOut
                THEN /\ io_handle' = abort(io_handle)
                     /\ pingTimedOut' = TRUE
                ELSE UNCHANGED <<io_handle, pingTimedOut>>
    /\ UNCHANGED <<mode, hostResult, attempts, wait, events, quitVars,
                   launchVars, process, stderr_task, current_nvim>>

\* select! branch `ping_interval.tick()`: get_api_info under a 2 s timeout;
\* when the timeout elapses the read loop is aborted. The loop goes on.
PingTick ==
    /\ pc = "monitor"
    /\ pings < MaxPings
    /\ pings' = pings + 1
    /\ pingIo' = io_handle
    /\ \E timedOut \in BOOLEAN :
        IF timedOut
        THEN /\ io_handle' = abort(io_handle)
             /\ pingTimedOut' = TRUE
        ELSE UNCHANGED <<io_handle, pingTimedOut>>
    /\ UNCHANGED <<mode, hostResult, pc, attempts, wait, events, quitVars,
                   launchVars, process, stderr_task, current_nvim>>

(* --------------------------------- run --------------------------------- *)
\* select! branch `&mut session.io_handle` of the embedded supervisor.
RunIoClosed ==
    /\ pc = "run_select"
    /\ io_handle = "finished"
    /\ pc' = "drain"
    /\ UNCHANGED <<mode, hostResult, attempts, wait, events, quitVars, launchVars,
                   sessionVars, current_nvim, pingVars>>

\* select! branch `process.wait()`: the child has exited before the stream.
RunProcessExited ==
    /\ pc = "run_select"
    /\ process = "exited"
    /\ pc' = "run_grace"
    /\ UNCHANGED <<mode, hostResult, attempts, wait, events, quitVars, launchVars,
                   sessionVars, current_nvim, pingVars>>

\* A mutated wait for the stream without the 500 ms timeout.
RunGraceWait_NoTimeout ==
    /\ pc = "run_grace"
    /\ io_handle = "finished"
    /\ pc' = "drain"
    /\ UNCHANGED <<mode, hostResult, attempts, wait, events, quitVars, launchVars,
                   sessionVars, current_nvim, pingVars>>

\* timeout(500ms, &mut session.io_handle): the stream closes or the time is up.
RunGraceWait ==
    /\ pc = "run_grace"
    /\ pc' = "drain"
    /\ UNCHANGED <<mode, hostResult, attempts, wait, events, quitVars, launchVars,
                   sessionVars, current_nvim, pingVars>>

(* ------------------------ the end of a session ------------------------- *)
\* A mutated drain that awaits the relay task without the 500 ms timeout.
DrainStderr_Unbounded ==
    /\ pc = "drain"
    /\ stderr_task # "running"
    /\ pc' = "clear"
    /\ UNCHANGED <<mode, hostResult, attempts, wait, events, quitVars, launchVars,
                   sessionVars, current_nvim, pingVars>>

\* if let Some(stderr_task) { timeout(500ms, stderr_task).await.ok(); }
DrainStderr ==
    /\ pc = "drain"
    /\ pc' = "clear"
    /\ UNCHANGED <<mode, hostResult, attempts, wait, events, quitVars, launchVars,
                   sessionVars, current_nvim, pingVars>>

\* A mutated shutdown that leaves the current connection in place.
UpdateCurrentNvimNone_Forgotten ==
    /\ pc = "clear"
    /\ pc' = "emit"
    /\ UNCHANGED <<mode, hostResult, attempts, wait, events, quitVars, launchVars,
                   sessionVars, current_nvim, pingVars>>

\* update_current_nvim(None)
UpdateCurrentNvimNone ==
    /\ pc = "clear"
    /\ current_nvim' = FALSE
    /\ pc' = "emit"
    /\ UNCHANGED <<mode, hostResult, attempts, wait, events, quitVars, launchVars,
                   sessionVars, pingVars>>

\* A mutated end of a server session that goes back to the reconnect loop.
SendNeovimExited_Reconnect ==
    /\ pc = "emit"
    /\ events' = Append(events, NeovimExited)
    /\ pc' = IF mode = "server" THEN "loop" ELSE "done"
    /\ UNCHANGED <<mode, hostResult, attempts, wait, quitVars, launchVars,
                   sessionVars, current_nvim, pingVars>>

\* proxy.send_event(UserEvent::NeovimExited).ok(); the supervisor returns.
SendNeovimExited ==
    /\ pc = "emit"
    /\ events' = Append(events, NeovimExited)
    /\ pc' = "done"
    /\ UNCHANGED <<mode, hostResult, attempts, wait, quitVars, launchVars,
                   sessionVars, current_nvim, pingVars>>

(* --------------------------- the environment --------------------------- *)
\* The positions at which a supervisor holds the session. During the
\* handshake a closed transport or a dead process shows as a failed call.
Supervised == {"monitor", "run_select", "run_grace", "drain"}

\* The transport reaches end of stream: the read-loop task completes.
TransportClosed ==
    /\ pc \in Supervised
    /\ io_handle = "running"
    /\ io_handle' = "finished"
    /\ UNCHANGED <<mode, hostResult, pc, attempts, wait, events, quitVars,
                   launchVars, process, stderr_task, current_nvim, pingVars>>

\* An aborted read-loop task reaches its next yield point and completes.
AbortCompletes ==
    /\ io_handle = "aborting"
    /\ io_handle' = "finished"
    /\ UNCHANGED <<mode, hostResult, pc, attempts, wait, events, quitVars,
                   launchVars, process, stderr_task, current_nvim, pingVars>>

\* The embedded nvim process exits.
ProcessExited ==
    /\ pc \in Supervised
    /\ process = "running"
    /\ process' = "exited"
    /\ UNCHANGED <<mode, hostResult, pc, attempts, wait, events, quitVars,
                   launchVars, io_handle, stderr_task, current_nvim, pingVars>>

\* The stderr relay reaches the end of the child's stderr.
StderrFinished ==
    /\ pc \in Supervised
    /\ stderr_task = "running"
    /\ stderr_task' = "finished"
    /\ UNCHANGED <<mode, hostResult, pc, attempts, wait, events, quitVars,
                   launchVars, io_handle, process, current_nvim, pingVars>>

\* RunningTracker::request_quit, called from elsewhere in the application.
RequestQuit ==
    /\ ~quitting
    /\ quitting' = TRUE
    /\ quitAt' = IF pc = "backoff_sleep" THEN "backoff_sleep" ELSE "elsewhere"
    /\ UNCHANGED <<mode, hostResult, pc, attempts, wait, events, launchVars,
                   sessionVars, current_nvim, pingVars, trackerVars>>

(* --------------------------- specifications ---------------------------- *)
\* The steps of the task that runs launch() and the supervisor.
TaskStep ==
    \/ RuntimeLaunch
    \/ EmbeddedLaunched
    \/ SessionNew
    \/ GetApiInformation
    \/ VersionSleep
    \/ SetupNeovideSpecificState
    \/ ReadInitialValues
    \/ UiAttach
    \/ LoopCheck
    \/ ReconnectConnected
    \/ ReconnectFailed
    \/ BackoffSleep
    \/ ServerIoClosed
    \/ RunIoClosed
    \/ RunProcessExited
    \/ RunGraceWait
    \/ DrainStderr
    \/ UpdateCurrentNvimNone
    \/ SendNeovimExited

Next ==
    \/ RuntimeLaunch
    \/ EmbeddedLaunched
    \/ SessionNew
    \/ GetApiInformation
    \/ VersionSleep
    \/ SetupNeovideSpecificState
    \/ ReadInitialValues
    \/ UiAttach
    \/ LoopCheck
    \/ ReconnectConnected
    \/ ReconnectFailed
    \/ BackoffSleep
    \/ ServerIoClosed
    \/ PingTick
    \/ RunIoClosed
    \/ RunProcessExited
    \/ RunGraceWait
    \/ DrainStderr
    \/ UpdateCurrentNvimNone
    \/ SendNeovimExited
    \/ TransportClosed
    \/ AbortCompletes
    \/ ProcessExited
    \/ StderrFinished
    \/ RequestQuit

Spec == Init /\ [][Next]_vars

\* Every await of the supervising task completes (a launch attempt, a sleep
\* and a bounded wait terminate, a ready select! branch is taken), and an
\* aborted task completes.
FairSpec == Spec /\ WF_vars(TaskStep) /\ WF_vars(AbortCompletes)

(* --------------------------- RunningTracker ---------------------------- *)
\* The threads holding a clone of the tracker, and the codes they pass.
Clones == 1..NumClones
Codes == 0..MaxCode

supervisorVars == <<mode, hostResult, pc, attempts, wait, events, quitAt,
                    launchVars, sessionVars, current_nvim, pingVars>>

\* A mutated store that keeps the first exit code.
StoreExitCode_FirstWins(old, code) == IF old = 0 THEN code ELSE old

\* self.exit_code.store(code, Ordering::Release): the new value of the u8.
StoreExitCode(old, code) == code % 256

\* A mutated quit_with_code that requests the quit before it stores the code:
\* its first step sets the flag.
quit_with_code_store_FlagFirst(t, code) ==
    /\ tpc[t] = "idle"
    /\ calls < MaxCalls
    /\ calls' = calls + 1
    /\ quitting' = TRUE
    /\ tpc' = [tpc EXCEPT ![t] = "request_quit"]
    /\ UNCHANGED <<exit_code, stores, plainQuit, lastRead, readAt, quitSeen>>
    /\ UNCHANGED supervisorVars

\* quit_with_code, first step: self.exit_code.store(code, Release).
quit_with_code_store(t, code) ==
    /\ tpc[t] = "idle"
    /\ calls < MaxCalls
    /\ calls' = calls + 1
    /\ exit_code' = StoreExitCode(exit_code, code)
    /\ stores' = Append(stores, code)
    /\ tpc' = [tpc EXCEPT ![t] = "request_quit"]
    /\ UNCHANGED <<quitting, plainQuit, lastRead, readAt, quitSeen>>
    /\ UNCHANGED supervisorVars

\* quit_with_code, second step: self.request_quit(), then the log line.
quit_with_code_request(t) ==
    /\ tpc[t] = "request_quit"
    /\ quitting' = TRUE
    /\ tpc' = [tpc EXCEPT ![t] = "idle"]
    /\ UNCHANGED <<exit_code, calls, stores, plainQuit, lastRead, readAt, quitSeen>>
    /\ UNCHANGED supervisorVars

\* request_quit called on its own: self.quitting.store(true, Release).
request_quit(t) ==
    /\ tpc[t] = "idle"
    /\ calls < MaxCalls
    /\ calls' = calls + 1
    /\ quitting' = TRUE
    /\ plainQuit' = TRUE
    /\ UNCHANGED <<exit_code, tpc, stores, lastRead, readAt, quitSeen>>
    /\ UNCHANGED supervisorVars

\* exit_code(): ExitCode::from(self.exit_code.load(Acquire)).
read_exit_code(t) ==
    /\ tpc[t] = "idle"
    /\ lastRead' = exit_code
    /\ readAt' = Len(stores)
    /\ UNCHANGED <<quitting, exit_code, tpc, calls, stores, plainQuit, quitSeen>>
    /\ UNCHANGED supervisorVars

\* quit_requested(): self.quitting.load(Acquire).
read_quit_requested(t) ==
    /\ tpc[t] = "idle"
    /\ quitSeen' = quit_requested
    /\ UNCHANGED <<quitting, exit_code, tpc, calls, stores, plainQuit, lastRead, readAt>>
    /\ UNCHANGED supervisorVars

QuitWithCodeStore == \E t \in Clones, code \in Codes : quit_with_code_store(t, code)
QuitWithCodeRequest == \E t \in Clones : quit_with_code_request(t)
PlainRequestQuit == \E t \in Clones : request_quit(t)
ReadExitCode == \E t \in Clones : read_exit_code(t)
ReadQuitRequested == \E t \in Clones : read_quit_requested(t)

TrackerNext ==
    \/ QuitWithCodeStore
    \/ QuitWithCodeRequest
    \/ PlainRequestQuit
    \/ ReadExitCode
    \/ ReadQuitRequested

\* The tracker on its own, used from NumClones threads.
TrackerSpec == Init /\ [][TrackerNext]_vars

(* ------------------------ views used by the claims --------------------- *)
IsStart(e) == e.type = "ReconnectStart"
IsReconnect(e) == e.type \in {"ReconnectStart", "ReconnectStop"}
IsExited(e) == e.type = "NeovimExited"

Starts == SelectSeq(events, IsStart)
ReconnectEvents == SelectSeq(events, IsReconnect)
NumStarts == Len(Starts)
NumStops == Len(ReconnectEvents) - NumStarts
NumExited == Len(SelectSeq(events, IsExited))

IsRequest(c) == c.call = "get_api_information"
IsSleep(c) == c.call = "sleep"
Requests == SelectSeq(log, IsRequest)
NumRequests == Len(Requests)
NumSleeps == Len(SelectSeq(log, IsSleep))
Issued(c) == \E i \in 1..Len(log) : log[i].call = c

\* 1, 2, 4, 8, 16, 30, 30, ...: doubling from 1 s under a 30 s cap.
CappedBackoff(k) == IF 2^(k - 1) <= 30 THEN 2^(k - 1) ELSE 30

(* -------------------------------- C1 ----------------------------------- *)
\* C1: the k-th ReconnectStart of consecutive failed attempts carries
\* 1, 2, 4, 8, 16, 30, 30, ... seconds, and the wait never exceeds 30 s.
C1_BackoffCappedAt30 ==
    /\ wait <= 30
    /\ \A k \in 1..NumStarts : Starts[k].wait = CappedBackoff(k)

(* -------------------------------- C2 ----------------------------------- *)
\* C2: n failed launches followed by a successful one emit exactly n
\* ReconnectStart events, each with the wait current at that failure (the
\* value before it is doubled), then exactly one ReconnectStop, and no
\* ReconnectStart after it; three failures give waits 1, 2, 4, then the stop.
C2_ReconnectEvents ==
    mode = "server" =>
        /\ NumStops <= 1
        /\ \A i \in 1..Len(ReconnectEvents) :
              ReconnectEvents[i].type = "ReconnectStop" => i = Len(ReconnectEvents)
        /\ NumStops = 1 => NumStarts = attempts - 1
        /\ pc = "backoff_sleep" => NumStarts = attempts /\ Starts[NumStarts].wait = wait
        /\ \A k \in 1..NumStarts : k <= 5 => Starts[k].wait = 2^(k - 1)
        /\ (NumStops = 1 /\ attempts = 4) =>
              ReconnectEvents = <<ReconnectStart(1), ReconnectStart(2),
                                  ReconnectStart(4), ReconnectStop>>

C2_ThreeFailuresThenConnected ==
    /\ mode = "server"
    /\ NumStops = 1
    /\ attempts = 4
    /\ Len(ReconnectEvents) = 4

(* -------------------------------- C3 ----------------------------------- *)
\* C3: every ReconnectStart is eventually followed by another ReconnectStart,
\* by a ReconnectStop, or by the loop ending on quit_requested.
C3_StartIsFollowed ==
    \A k \in 1..MaxAttempts :
        (NumStarts = k) ~> (\/ NumStarts > k
                            \/ NumStops = 1
                            \/ pc = "done" /\ quitting)

C3_StartThenStop ==
    /\ NumStarts >= 2
    /\ NumStops = 1

(* -------------------------------- C4 ----------------------------------- *)
\* C4: once quit is requested and the loop is in its backoff sleep or at the
\* head of an iteration, it starts no launch and sends no event any more: the
\* sleep is followed by the head of the loop, and the head by the end.
C4_QuitStopsLoop ==
    [][(mode = "server" /\ quitting /\ pc \in {"backoff_sleep", "loop", "done"}) =>
          /\ attempts' = attempts
          /\ events' = events
          /\ pc = "backoff_sleep" => pc' \in {"backoff_sleep", "loop"}
          /\ pc = "loop" => pc' \in {"loop", "done"}
          /\ pc = "done" => pc' = "done"]_vars

C4_QuitDuringSleep ==
    /\ mode = "server"
    /\ quitAt = "backoff_sleep"
    /\ pc = "done"
    /\ NumStarts >= 1

(* -------------------------------- C5 ----------------------------------- *)
\* C5: after a ping timeout the read-loop task is aborted (or already
\* complete), and NeovimExited is eventually sent, once.
C5_PingTimeoutEndsSession ==
    /\ [](pingTimedOut => io_handle \in {"aborting", "finished"})
    /\ [](NumExited <= 1)
    /\ pingTimedOut ~> (NumExited = 1 /\ pc = "done")

C5_TimedOutAndExited ==
    /\ pingTimedOut
    /\ NumExited = 1

(* -------------------------------- C6 ----------------------------------- *)
\* C6: check_neovim_version issues at most 5 requests; the first acceptable
\* answer ends it at once (no later request, no sleep after it); 5
\* unacceptable answers end it with the IncompatibleVersion error.
C6_VersionCheck ==
    /\ NumRequests <= 5
    /\ \A i \in 1..NumRequests :
          Requests[i].result = "ok" =>
              /\ i = NumRequests
              /\ NumSleeps = NumRequests - 1
              /\ accepted # NoVersion
              /\ pc \in {"setup", "settings", "ui_attach", "launched"}
              /\ launchResult # "IncompatibleVersion"
    /\ accepted # NoVersion =>
          NumRequests >= 1 /\ Requests[NumRequests].result = "ok"
    /\ launchResult = "IncompatibleVersion" =>
          /\ NumRequests = 5
          /\ \A i \in 1..5 : Requests[i].result # "ok"
    /\ (NumRequests = 5 /\ NumSleeps = 5) => launchResult = "IncompatibleVersion"

C6_AcceptedAtThirdRequest ==
    /\ NumRequests = 3
    /\ accepted # NoVersion
    /\ pc = "setup"

(* -------------------------------- C7 ----------------------------------- *)
\* C7: a launch that returns a session has accepted a version that is at
\* least 0.10.0; no lower version is ever accepted.
C7_AcceptedVersionAtLeastRequired ==
    /\ launchResult = "ok" => accepted # NoVersion
    /\ accepted # NoVersion =>
          accepted[1] * 10000 + accepted[2] * 100 + accepted[3] >= 1000

C7_AcceptedMajorOne ==
    /\ launchResult = "ok"
    /\ accepted = <<1, 0, 0>>

(* -------------------------------- C8 ----------------------------------- *)
PrevOk(j, c) == j > 1 /\ log[j - 1].call = c /\ log[j - 1].result = "ok"

\* C8: within one launch the calls come in the order session creation,
\* version check, setup, settings sync, ui_attach, each issued only right
\* after the previous step succeeded; a launch whose five version answers are
\* all too old fails with IncompatibleVersion without any setup, settings
\* sync or ui_attach call.
C8_HandshakeOrder ==
    /\ \A j \in 1..Len(log) :
          LET c == log[j].call IN
          /\ (j = 1) <=> (c = "session_new")
          /\ c = "get_api_information" =>
                j > 1 /\ (PrevOk(j, "session_new") \/ log[j - 1].call = "sleep")
          /\ c = "sleep" =>
                /\ j > 1
                /\ log[j - 1].call = "get_api_information"
                /\ log[j - 1].result # "ok"
          /\ c = "setup_neovide_specific_state" => PrevOk(j, "get_api_information")
          /\ c = "read_initial_values" => PrevOk(j, "setup_neovide_specific_state")
          /\ c = "ui_attach" => PrevOk(j, "read_initial_values")
    /\ launchResult = "ok" => PrevOk(Len(log) + 1, "ui_attach")
    /\ launchResult = "IncompatibleVersion" =>
          /\ NumRequests = 5
          /\ ~Issued("setup_neovide_specific_state")
          /\ ~Issued("read_initial_values")
          /\ ~Issued("ui_attach")
    /\ (pc = "launched" /\ NumRequests = 5
          /\ \A i \in 1..NumRequests : Requests[i].result = "old") =>
          launchResult = "IncompatibleVersion"

C8_FiveOldVersions ==
    /\ launchResult = "IncompatibleVersion"
    /\ NumRequests = 5
    /\ \A i \in 1..NumRequests : Requests[i].result = "old"

(* -------------------------------- C9 ----------------------------------- *)
\* C9: NeovimRuntime::launch returns only after the first launch attempt has
\* completed, and a failed first attempt is returned to the caller as an
\* error, in embedded and in server mode.
C9_FirstAttemptInline ==
    /\ hostResult # "pending" => firstResult # "none"
    /\ (firstResult = "err" /\ pc # "launched") => hostResult = "err"

\* C9 as amended: in embedded mode launch blocks on the only attempt, returns
\* its error to the caller and detaches `run` only after a success; in server
\* mode it returns Ok(()) before any attempt is made, and no failed attempt is
\* ever returned as an error.
C9_InlineOnlyWhenEmbedded ==
    /\ mode = "embedded" =>
          /\ hostResult = "pending" =>
                pc \in {"start", "session_new", "check_version", "version_sleep",
                        "setup", "settings", "ui_attach", "launched"}
          /\ hostResult = "ok" => firstResult = "ok"
          /\ hostResult = "err" => firstResult = "err" /\ pc = "done"
          /\ (firstResult # "none" /\ pc # "launched") => hostResult # "pending"
          /\ attempts <= 1
    /\ mode = "server" =>
          /\ hostResult # "err"
          /\ hostResult = "pending" => pc = "start"
          /\ attempts >= 1 => hostResult = "ok"

C9_EmbeddedFailureReported ==
    /\ mode = "embedded"
    /\ hostResult = "err"
    /\ firstResult = "err"

C11_DrainNeverBlocksShutdown ==
    /\ (pc = "drain") ~> (pc = "done" /\ ~current_nvim /\ NumExited = 1)
    /\ [][pc = "drain" /\ pc' # "drain" => pc' = "clear" /\ stderr_task' = stderr_task]_vars

C11_ExitedWithRelayRunning ==
    /\ pc = "done"
    /\ NumExited = 1
    /\ stderr_task = "running"

(* -------------------------------- C12 ---------------------------------- *)
\* C12: in embedded mode a closed transport or an exited child leads to
\* NeovimExited, sent once, also when the transport never closes after the
\* child's exit; the embedded mode makes one launch attempt and sends no
\* ReconnectStart or ReconnectStop.
C12_EmbeddedExitsOnceNoRetry ==
    /\ (mode = "embedded" /\ pc \in {"run_select", "run_grace"}
          /\ (io_handle = "finished" \/ process = "exited"))
          ~> (pc = "done" /\ NumExited = 1)
    /\ [](mode = "embedded" =>
            /\ attempts <= 1
            /\ NumStarts = 0
            /\ NumStops = 0
            /\ NumExited <= 1
            /\ wait = 0)

C12_ExitedWithTransportOpen ==
    /\ mode = "embedded"
    /\ process = "exited"
    /\ io_handle = "running"
    /\ pc = "done"
    /\ NumExited = 1
(* -------------------------------- C13 ---------------------------------- *)
LaunchErrors == {"ConnectError", "IncompatibleVersion", "SetupError",
                 "SettingsSyncError", "AttachError"}

\* C13: in server mode a failed launch attempt, whatever its error, is never
\* returned as an error and never ends the supervisor: it is followed by
\* ReconnectStart, the sleep and, unless quit is requested, the next attempt;
\* the loop ends only on quit_requested or after a successful connection.
C13_FailureBecomesBackoff ==
    /\ [](mode = "server" =>
            /\ hostResult # "err"
            /\ launchResult \in {"none", "ok"} \cup LaunchErrors
            /\ (pc = "done" /\ NumStops = 0) => quitting)
    /\ [][(mode = "server" /\ pc = "launched" /\ launchResult \in LaunchErrors
             /\ pc' # pc) =>
            /\ pc' = "backoff_sleep"
            /\ events' = events \o <<ReconnectStart(wait), RedrawRequested>>]_vars
    /\ [][(pc = "backoff_sleep" /\ pc' # pc) => pc' = "loop"]_vars
    /\ [][(pc = "loop" /\ ~quitting /\ pc' # pc) =>
            pc' = "session_new" /\ attempts' = attempts + 1]_vars

C13_RetryAfterTwoFailures ==
    /\ mode = "server"
    /\ pc = "session_new"
    /\ attempts = 3
    /\ NumStarts = 2
    /\ ~quitting

(* -------------------------------- C14 ---------------------------------- *)
\* C14: once a launch has failed with IncompatibleVersion, no further launch
\* attempt is made.
C14_IncompatibleNotRetried ==
    [][incompatibleSeen => attempts' = attempts]_vars

\* C14 as amended: IncompatibleVersion ends the launch attempt it occurs in.
\* In embedded mode it is final: NeovimRuntime::launch returns the error and
\* nothing is attempted or supervised afterwards. In server mode
\* run_with_reconnect treats it as any other failure: ReconnectStart, the
\* backoff sleep, and another launch attempt unless quit is requested.
C14_IncompatibleRetriedInServerMode ==
    /\ [](launchResult = "IncompatibleVersion" => pc = "launched")
    /\ []((mode = "embedded" /\ incompatibleSeen) =>
            /\ attempts = 1
            /\ pc \in {"launched", "done"}
            /\ pc = "done" => (hostResult = "err" /\ events = <<>>))
    /\ (mode = "server" /\ launchResult = "IncompatibleVersion")
          ~> (quitting \/ (pc = "session_new" /\ NumStarts >= 1))

C14_SecondAttemptAfterIncompatible ==
    /\ mode = "server"
    /\ incompatibleSeen
    /\ attempts = 2
    /\ pc = "session_new"
(* -------------------------------- C15 ---------------------------------- *)
\* C15: after a ping has timed out, no further tick is handled and no further
\* get_api_info is issued on that session.
C15_NoPingAfterTimeout ==
    [][pingTimedOut => pings' = pings]_vars

\* C15 as amended: a ping timeout aborts the read-loop task in the same step
\* and stays in the loop; the loop is left only through the io_handle branch,
\* once the aborted task has completed. Until then a further tick may be
\* handled and a further get_api_info issued.
C15_TimeoutAbortsAndStaysInLoop ==
    /\ [][(~pingTimedOut /\ pingTimedOut') =>
            /\ pc = "monitor"
            /\ pc' = "monitor"
            /\ pings' = pings + 1
            /\ io_handle' \in {"aborting", "finished"}]_vars
    /\ [][(pc = "monitor" /\ pc' # pc) =>
            /\ pc' = "drain"
            /\ io_handle = "finished"
            /\ pings' = pings]_vars

C15_PingAfterTimeout ==
    /\ pingTimedOut
    /\ pingIo = "aborting"
    /\ pings = 2

(* -------------------------------- C16 ---------------------------------- *)
\* C16: no liveness ping is issued in a state where io_handle has finished.
C16_NoPingAfterIoFinished ==
    pingIo # "finished"

\* C16 as amended: run_server issues pings only from inside its loop; when
\* the tick branch of select! is taken although io_handle has already
\* finished, a ping is issued on the finished session. That ping is bounded
\* by its timeout, changes nothing (aborting a finished task does nothing,
\* the loop is not left by it) and the session still ends with NeovimExited.
C16_PingOnFinishedSessionIsHarmless ==
    /\ [][pings' # pings =>
            /\ pc = "monitor"
            /\ pc' = "monitor"
            /\ io_handle # "none"
            /\ io_handle = "finished" => io_handle' = "finished"
            /\ events' = events]_vars
    /\ (pingIo = "finished") ~> (pc = "done" /\ NumExited = 1)

C16_PingedFinishedSession ==
    /\ pingIo = "finished"
    /\ pc = "monitor"
(* -------------------------------- C17 ---------------------------------- *)
\* C17: the shutdown of a session drains the stderr relay, then clears the
\* current connection, then sends NeovimExited: whenever NeovimExited has been
\* sent the current connection is already cleared, and NeovimExited is the
\* last event of the supervisor.
C17_ShutdownOrder ==
    /\ pc \in {"drain", "clear"} => (current_nvim /\ NumExited = 0)
    /\ pc = "emit" => (~current_nvim /\ NumExited = 0)
    /\ NumExited >= 1 =>
          /\ ~current_nvim
          /\ pc = "done"
          /\ events[Len(events)] = NeovimExited
          /\ NumExited = 1

C17_ExitedAndCleared ==
    /\ NumExited = 1
    /\ ~current_nvim
    /\ pc = "done"

(* -------------------------------- C18 ---------------------------------- *)
\* C18: a successful server-mode connection sends ReconnectStop and a redraw
\* request and is monitored until it ends; then the supervisor returns. After
\* the ReconnectStop no launch attempt is made and no ReconnectStart or
\* ReconnectStop is sent: a supervisor has at most one successful session.
C18_OneSessionThenReturn ==
    /\ [](mode = "server" =>
            /\ NumStops <= 1
            /\ NumStops = 1 => pc \in {"monitor", "drain", "clear", "emit", "done"}
            /\ pc \in {"monitor", "drain", "clear", "emit"} => NumStops = 1
            /\ \A i \in 1..Len(events) :
                  events[i] = ReconnectStop =>
                      i < Len(events) /\ events[i + 1] = RedrawRequested
            /\ NumExited = 1 => (NumStops = 1 /\ pc = "done"))
    /\ [][(mode = "server" /\ NumStops = 1) =>
            /\ attempts' = attempts
            /\ ReconnectEvents' = ReconnectEvents]_vars

C18_SessionEndedAndReturned ==
    /\ mode = "server"
    /\ NumStops = 1
    /\ NumExited = 1
    /\ pc = "done"
(* -------------------------------- C19 ---------------------------------- *)
Stored == {stores[i] : i \in 1..Len(stores)}

\* C19: the exit code is last-write-wins: it is the code of the most recently
\* stored quit_with_code (0 when there is none), request_quit leaves it
\* unchanged, and exit_code() returns the value that was current at the read,
\* a whole value some call wrote.
C19_ExitCodeLastWriteWins ==
    /\ [](exit_code = IF stores = <<>> THEN 0 ELSE stores[Len(stores)])
    /\ [](lastRead = IF readAt = 0 THEN 0 ELSE stores[readAt])
    /\ [](lastRead \in {0} \cup Stored)
    /\ [][stores' = stores => exit_code' = exit_code]_vars

C19_SecondStoreRead ==
    /\ Len(stores) = 2
    /\ stores[1] # stores[2]
    /\ plainQuit
    /\ readAt = 2
    /\ lastRead = stores[2]

(* -------------------------------- C20 ---------------------------------- *)
\* C20: the quit flag is never reset, so quit_requested() stays true once it
\* has returned true; and since quit_with_code stores the code before it sets
\* the flag, a flag set through quit_with_code alone comes with an exit code
\* that was passed to one of those calls.
C20_FlagMonotoneAfterCode ==
    /\ [][quitting => quitting']_vars
    /\ [][quitSeen => quitSeen']_vars
    /\ []((quitting /\ ~plainQuit) =>
            /\ stores # <<>>
            /\ exit_code \in Stored)

C20_FlagSetWhileOtherCallPending ==
    /\ quitting
    /\ quitSeen
    /\ ~plainQuit
    /\ Len(stores) = 2
    /\ \E t \in Clones : tpc[t] = "request_quit"
====
